---- MODULE Spec2Model ----
(***************************************************************************)
(* Model of src/scheduling/solver.py: a Scheduler encodes "minimum         *)
(* makespan on identical parallel machines" as a CP-SAT model (one BoolVar *)
(* per (machine, job), one IntVar per machine load, one makespan IntVar),  *)
(* has the solver minimise the makespan, prints the result and returns the *)
(* objective value.                                                        *)
(*                                                                         *)
(* Python lists are functions over 0..n-1, so that indices are the         *)
(* source's.  The CpModel is the record of what the builder methods added  *)
(* to it; Solve picks any solution the constraints and the objective       *)
(* allow.  ObjectiveValue() is a float holding an integer value; it is     *)
(* modelled by that integer.                                               *)
(***************************************************************************)
EXTENDS Integers, Sequences, FiniteSets, TLC

\* Bounds of the inputs explored.
MaxJobs == 3
MaxDur == 2
MaxMachines == 2

VARIABLES
    job_times,          \* self.job_times
    n_jobs,             \* self.n_jobs
    n_machines,         \* self.n_machines
    upper_bound,        \* self.upper_bound
    pc,                 \* position in Scheduler.schedule()
    model,              \* local `model` (the CpModel)
    jobs,               \* local `jobs`: rows of BoolVars
    machine_makespans,  \* local `machine_makespans`: the load IntVars
    makespan,           \* local `makespan`: the objective IntVar
    solver,             \* local `solver` (the CpSolver and its response)
    stdout,             \* lines printed by the current schedule() call
    ret,                \* value returned by the current schedule() call
    accepts_float_zero, \* whether the linked OR-tools takes the float 0.0 as a constant
    rel,                \* how the current call relates to the previous one
    prev                \* inputs and result of the previous completed call

fields == <<job_times, n_jobs, n_machines, upper_bound>>
locals == <<model, jobs, machine_makespans, makespan, solver>>
vars == <<job_times, n_jobs, n_machines, upper_bound, pc, model, jobs,
          machine_makespans, makespan, solver, stdout, ret, accepts_float_zero,
          rel, prev>>

(***************************************************************************)
(* Python helpers.                                                         *)
(***************************************************************************)
range(n) == 0 .. (n - 1)

len(list) == Cardinality(DOMAIN list)

List(seq) == [k \in range(Len(seq)) |-> seq[k + 1]]

append(list, e) ==
    [k \in range(len(list) + 1) |-> IF k < len(list) THEN list[k] ELSE e]

RECURSIVE SumUpTo(_, _)
SumUpTo(list, n) ==
    IF n <= 0 THEN 0 ELSE SumUpTo(list, n - 1) + list[n - 1]

sum(list) == SumUpTo(list, len(list))

SetMax(S) == CHOOSE a \in S : \A b \in S : b <= a

SetMin(S) == CHOOSE a \in S : \A b \in S : a <= b

(***************************************************************************)
(* Scheduler.__init__                                                      *)
(***************************************************************************)
init_n_jobs(jt) == len(jt)

\* Variant: the bound is the longest job, not the sum of the jobs.
init_upper_bound_longest(jt) ==
    IF DOMAIN jt = {} THEN 0 ELSE SetMax({jt[j] : j \in DOMAIN jt})

init_upper_bound(jt) == sum(jt)

(***************************************************************************)
(* The model builder methods.  A BoolVar is named by its pair <<i, j>>     *)
(* (machine, job), an IntVar by its name.                                  *)
(***************************************************************************)
NewCpModel ==
    [bool_vars |-> {}, int_vars |-> {}, exactly_one |-> {}, linear |-> {},
     max_equality |-> {}, objective |-> {}]

MachineVar(i) == <<"machine_makespan", i>>

MakespanVar == <<"makespan", 0>>

\* for i in range(n_machines): jobs.append([NewBoolVar for j, job in enumerate(job_times)])
add_bool_vars(n_m, jt) ==
    [i \in range(n_m) |-> [j \in DOMAIN jt |-> <<i, j>>]]

\* Variant: the loop over the jobs stops one short.
add_single_machine_constraints_skip_last(n_j, n_m, rows) ==
    {[job |-> j, terms |-> {rows[i][j] : i \in range(n_m)}] : j \in range(n_j - 1)}

\* for j in range(n_jobs): Add(sum(jobs[i][j] for i in range(n_machines)) == 1)
\* With no machine the sum is the integer 0 and the constraint the constant
\* False: a constraint with no term, which nothing satisfies.
add_single_machine_constraints(n_j, n_m, rows) ==
    {[job |-> j, terms |-> {rows[i][j] : i \in range(n_m)}] : j \in range(n_j)}

\* Variant: the loop over the machines stops one short.
add_machine_makespan_constraints_skip_last(n_m, ub, rows, jt) ==
    [i \in range(n_m - 1) |->
        [var |-> <<"machine_makespan", i>>, lo |-> 0, hi |-> ub, row |-> rows[i],
         coeffs |-> jt]]

\* Variant: the load counts the jobs instead of weighting them by duration.
add_machine_makespan_constraints_unweighted(n_m, ub, rows, jt) ==
    [i \in range(n_m) |->
        [var |-> <<"machine_makespan", i>>, lo |-> 0, hi |-> ub, row |-> rows[i],
         coeffs |-> [j \in DOMAIN jt |-> 1]]]

\* for i in range(n_machines): NewIntVar(0, upper_bound); Add(var == np.dot(jobs[i], job_times))
add_machine_makespan_constraints(n_m, ub, rows, jt) ==
    [i \in range(n_m) |->
        [var |-> MachineVar(i), lo |-> 0, hi |-> ub, row |-> rows[i], coeffs |-> jt]]

\* Variant: the upper bound of the makespan variable is exclusive.
define_objective_exclusive(ub, mm) ==
    [target |-> <<"makespan", 0>>, lo |-> 0, hi |-> ub - 1,
     exprs |-> {mm[i] : i \in DOMAIN mm}]

\* np.dot(jobs[i], job_times) of two empty lists is the float 0.0, not an
\* integer expression.  OR-tools releases differ on `IntVar == 0.0`: some
\* drop a zero constant of any type, the others raise TypeError ("Not an
\* linear expression") while the constraint is built.
dot_is_float(jt) == DOMAIN jt = {}

\* NewIntVar(0, upper_bound, 'makespan'); AddMaxEquality(makespan, machine_makespans)
define_objective(ub, mm) ==
    [target |-> MakespanVar, lo |-> 0, hi |-> ub,
     exprs |-> {mm[i] : i \in DOMAIN mm}]

\* Variant: the objective is never handed to the model.
Minimize_dropped(m, target) == m

\* model.Minimize(makespan)
Minimize(m, target) == [m EXCEPT !.objective = {target}]

(***************************************************************************)
(* CP-SAT semantics.  An assignment x gives every job column j the set     *)
(* x[j] of machines i whose BoolVar <<i, j>> is true.                      *)
(***************************************************************************)
Value(x, v) == IF v[2] \in DOMAIN x /\ v[1] \in x[v[2]] THEN 1 ELSE 0

Cols(m) == {v[2] : v \in m.bool_vars}

RowsOf(m, j) == {v[1] : v \in {w \in m.bool_vars : w[2] = j}}

ExactlyOne(x, c) == Cardinality({v \in c.terms : Value(x, v) = 1}) = 1

\* The values of column j that the exactly-one constraints of job j allow.
ColChoices(m, j) ==
    {S \in SUBSET RowsOf(m, j) :
        \A c \in m.exactly_one :
            c.job = j => Cardinality({v \in c.terms : v[1] \in S}) = 1}

RECURSIVE Assignments(_, _)
Assignments(m, k) ==
    IF k <= 0 THEN {List(<<>>)}
    ELSE {append(a, S) : a \in Assignments(m, k - 1), S \in ColChoices(m, k - 1)}

RECURSIVE DotUpTo(_, _, _, _)
DotUpTo(x, row, coeffs, n) ==
    IF n <= 0 THEN 0
    ELSE DotUpTo(x, row, coeffs, n - 1) + Value(x, row[n - 1]) * coeffs[n - 1]

\* np.dot(jobs[i], job_times) under x
Dot(x, row, coeffs) == DotUpTo(x, row, coeffs, len(row))

\* The value the linear constraints force on IntVar `name` under x.
IntValue(m, x, name) ==
    LET c == CHOOSE d \in m.linear : d.var = name
    IN  Dot(x, c.row, c.coeffs)

InDomain(m, name, val) ==
    \A d \in m.int_vars : d.var = name => d.lo <= val /\ val <= d.hi

\* The value an AddMaxEquality constraint forces on its target under x.
MaxOf(m, x, c) == SetMax({IntValue(m, x, e) : e \in c.exprs})

\* A maximum over no expression has no value: nothing satisfies it.
Satisfies(m, x) ==
    /\ \A c \in m.exactly_one : ExactlyOne(x, c)
    /\ \A c \in m.linear : InDomain(m, c.var, Dot(x, c.row, c.coeffs))
    /\ \A c \in m.max_equality :
          /\ c.exprs # {}
          /\ InDomain(m, c.target, MaxOf(m, x, c))

Solutions(m) == {x \in Assignments(m, Cardinality(Cols(m))) : Satisfies(m, x)}

\* The value of IntVar `name` under x, whichever constraint defines it.
VarValue(m, x, name) ==
    IF \E c \in m.max_equality : c.target = name
    THEN MaxOf(m, x, CHOOSE c \in m.max_equality : c.target = name)
    ELSE IntValue(m, x, name)

ObjectiveOf(m, x) ==
    IF m.objective = {} THEN 0
    ELSE VarValue(m, x, CHOOSE o \in m.objective : TRUE)

Optimal(m) ==
    LET sols == Solutions(m)
        best == SetMin({ObjectiveOf(m, x) : x \in sols})
    IN  {x \in sols : ObjectiveOf(m, x) = best}

(***************************************************************************)
(* CpSolver.  Solve leaves a response: OPTIMAL with a minimising solution, *)
(* or no solution; a model whose maximum ranges over no expression is      *)
(* rejected as invalid or found infeasible, depending on the library       *)
(* version.  Without a solution ObjectiveValue() is the response's default *)
(* 0.0.                                                                    *)
(***************************************************************************)
NewCpSolver == [status |-> "UNKNOWN", objective_value |-> 0, x |-> <<>>]

NoSolutionStatus(m) ==
    IF \E c \in m.max_equality : c.exprs = {}
    THEN {"INFEASIBLE", "MODEL_INVALID"}
    ELSE {"INFEASIBLE"}

Responses(m) ==
    IF Solutions(m) = {}
    THEN {[status |-> st, objective_value |-> 0, x |-> <<>>] : st \in NoSolutionStatus(m)}
    ELSE {[status |-> "OPTIMAL", objective_value |-> ObjectiveOf(m, x), x |-> x] :
            x \in Optimal(m)}

\* Variant: the value of the first machine's load instead of the objective.
ObjectiveValue_first_machine(sv) ==
    SumUpTo([j \in DOMAIN job_times |->
                IF Value(sv.x, <<0, j>>) = 1 THEN job_times[j] ELSE 0], n_jobs)

ObjectiveValue(sv) == sv.objective_value

\* tuple(index for index, job in enumerate(row) if solver.Value(job))
RECURSIVE ScheduledUpTo(_, _, _)
ScheduledUpTo(sv, row, n) ==
    IF n <= 0 THEN <<>>
    ELSE IF Value(sv.x, row[n - 1]) = 1
         THEN Append(ScheduledUpTo(sv, row, n - 1), n - 1)
         ELSE ScheduledUpTo(sv, row, n - 1)

scheduled(sv, row) == ScheduledUpTo(sv, row, len(row))

\* Variant: only the makespan line is written.
print_results_makespan_only(sv, rows) ==
    <<[text |-> "Optimal makespan: ", machine |-> -1, value |-> <<sv.objective_value>>]>>

\* The lines _print_results writes: the makespan, then one line per row of jobs.
print_results(sv, rows) ==
    <<[text |-> "Optimal makespan: ", machine |-> -1, value |-> <<ObjectiveValue(sv)>>]>>
    \o [k \in 1 .. len(rows) |->
          [text |-> "Machine", machine |-> k - 1, value |-> scheduled(sv, rows[k - 1])]]

(***************************************************************************)
(* The inputs explored: every job list within the bounds, with every       *)
(* machine count from -1 up, and the scenarios of the test plan.           *)
(***************************************************************************)
Durations == 0 .. MaxDur

JobLists == UNION {[range(n) -> Durations] : n \in 0 .. MaxJobs}

Scenarios ==
    {[jt |-> List(<<5, 5, 5, 5>>), m |-> 2],
     [jt |-> List(<<1, 2, 3, 4, 5>>), m |-> 2],
     [jt |-> List(<<10>>), m |-> 3],
     [jt |-> List(<<3, 3, 3>>), m |-> 1]}

Inputs == {[jt |-> jt, m |-> m] : jt \in JobLists, m \in -1 .. MaxMachines} \cup Scenarios

NoCall == [job_times |-> <<>>, n_machines |-> 0, ret |-> <<>>]

ThisCall == [job_times |-> job_times, n_machines |-> n_machines, ret |-> ret]

\* Scheduler(job_times, n_machines): the fields __init__ sets.
Construct(jt, m) ==
    /\ job_times' = jt
    /\ n_jobs' = init_n_jobs(jt)
    /\ n_machines' = m
    /\ upper_bound' = init_upper_bound(jt)

Init ==
    /\ \E inp \in Inputs :
          /\ job_times = inp.jt
          /\ n_jobs = init_n_jobs(inp.jt)
          /\ n_machines = inp.m
          /\ upper_bound = init_upper_bound(inp.jt)
    /\ pc = "start"
    /\ model = NewCpModel
    /\ jobs = <<>>
    /\ machine_makespans = <<>>
    /\ makespan = <<>>
    /\ solver = NewCpSolver
    /\ stdout = <<>>
    /\ ret = <<>>
    /\ accepts_float_zero \in BOOLEAN
    /\ rel = "first"
    /\ prev = NoCall

(***************************************************************************)
(* Scheduler.schedule(), one action per statement.                         *)
(***************************************************************************)
\* model = CpModel(); jobs = []; self._add_bool_vars(model, jobs)
AddBoolVars ==
    /\ pc = "start"
    /\ LET rows == add_bool_vars(n_machines, job_times)
       IN  /\ jobs' = rows
           /\ model' = [NewCpModel EXCEPT
                  !.bool_vars = {rows[i][j] : i \in DOMAIN rows, j \in DOMAIN job_times}]
    /\ machine_makespans' = <<>>
    /\ makespan' = <<>>
    /\ solver' = NewCpSolver
    /\ pc' = "single"
    /\ UNCHANGED <<fields, stdout, ret, accepts_float_zero, rel, prev>>

\* self._add_single_machine_constraints(model, jobs)
AddSingleMachineConstraints ==
    /\ pc = "single"
    /\ model' = [model EXCEPT
           !.exactly_one = @ \cup add_single_machine_constraints(n_jobs, n_machines, jobs)]
    /\ pc' = "loads"
    /\ UNCHANGED <<fields, jobs, machine_makespans, makespan, solver, stdout, ret, accepts_float_zero, rel, prev>>

\* machine_makespans = self._add_machine_makespan_constraints(model, jobs)
AddMachineMakespanConstraints ==
    /\ pc = "loads"
    /\ (n_machines >= 1 /\ dot_is_float(job_times)) => accepts_float_zero
    /\ LET mm == add_machine_makespan_constraints(n_machines, upper_bound, jobs, job_times)
       IN  /\ model' = [model EXCEPT
                  !.int_vars = @ \cup
                      {[var |-> mm[i].var, lo |-> mm[i].lo, hi |-> mm[i].hi] : i \in DOMAIN mm},
                  !.linear = @ \cup
                      {[var |-> mm[i].var, row |-> mm[i].row, coeffs |-> mm[i].coeffs] :
                          i \in DOMAIN mm}]
           /\ machine_makespans' = [i \in DOMAIN mm |-> mm[i].var]
    /\ pc' = "objective"
    /\ UNCHANGED <<fields, jobs, makespan, solver, stdout, ret, accepts_float_zero, rel, prev>>

\* The first iteration of the loop in _add_machine_makespan_constraints
\* raises TypeError; the exception leaves schedule() and reaches the caller.
AddMachineMakespanConstraintsRaises ==
    /\ pc = "loads"
    /\ n_machines >= 1
    /\ dot_is_float(job_times)
    /\ ~accepts_float_zero
    /\ model' = NewCpModel
    /\ jobs' = <<>>
    /\ machine_makespans' = <<>>
    /\ makespan' = <<>>
    /\ solver' = NewCpSolver
    /\ pc' = "TypeError"
    /\ UNCHANGED <<fields, stdout, ret, accepts_float_zero, rel, prev>>

\* makespan = self._define_objective(model, machine_makespans)
DefineObjective ==
    /\ pc = "objective"
    /\ LET o == define_objective(upper_bound, machine_makespans)
       IN  /\ model' = [model EXCEPT
                  !.int_vars = @ \cup {[var |-> o.target, lo |-> o.lo, hi |-> o.hi]},
                  !.max_equality = @ \cup {[target |-> o.target, exprs |-> o.exprs]}]
           /\ makespan' = <<o.target>>
    /\ pc' = "minimize"
    /\ UNCHANGED <<fields, jobs, machine_makespans, solver, stdout, ret, accepts_float_zero, rel, prev>>

\* model.Minimize(makespan)
AddMinimize ==
    /\ pc = "minimize"
    /\ model' = Minimize(model, makespan[1])
    /\ pc' = "solve"
    /\ UNCHANGED <<fields, jobs, machine_makespans, makespan, solver, stdout, ret, accepts_float_zero, rel, prev>>

\* solver = CpSolver(); solver.Solve(model)
Solve ==
    /\ pc = "solve"
    /\ solver' \in Responses(model)
    /\ pc' = "print"
    /\ UNCHANGED <<fields, model, jobs, machine_makespans, makespan, stdout, ret, accepts_float_zero, rel, prev>>

\* self._print_results(solver, jobs)
PrintResults ==
    /\ pc = "print"
    /\ stdout' = stdout \o print_results(solver, jobs)
    /\ pc' = "return"
    /\ UNCHANGED <<fields, locals, ret, accepts_float_zero, rel, prev>>

\* return solver.ObjectiveValue(); the locals die with the call.
Return ==
    /\ pc = "return"
    /\ ret' = <<ObjectiveValue(solver)>>
    /\ model' = NewCpModel
    /\ jobs' = <<>>
    /\ machine_makespans' = <<>>
    /\ makespan' = <<>>
    /\ solver' = NewCpSolver
    /\ pc' = "done"
    /\ UNCHANGED <<fields, stdout, accepts_float_zero, rel, prev>>

(***************************************************************************)
(* The callers: schedule() again on the same Scheduler, or the module's    *)
(* schedule(job_times, n_machines) on a new Scheduler whose inputs are the *)
(* last ones, the last ones with one more machine, or with one more job.   *)
(***************************************************************************)
NextCall(r) ==
    /\ pc \in {"done", "TypeError"}
    /\ pc' = "start"
    /\ prev' = ThisCall
    /\ rel' = r
    /\ stdout' = <<>>
    /\ ret' = <<>>
    /\ UNCHANGED <<locals, accepts_float_zero>>

ScheduleAgain ==
    /\ NextCall("again")
    /\ UNCHANGED fields

ScheduleSame ==
    /\ NextCall("same")
    /\ Construct(job_times, n_machines)

ScheduleMoreMachines ==
    /\ n_machines < MaxMachines
    /\ NextCall("machine")
    /\ Construct(job_times, n_machines + 1)

ScheduleMoreJobs ==
    /\ n_jobs < MaxJobs
    /\ NextCall("job")
    /\ \E d \in Durations : Construct(append(job_times, d), n_machines)

Next ==
    \/ AddBoolVars
    \/ AddSingleMachineConstraints
    \/ AddMachineMakespanConstraints
    \/ AddMachineMakespanConstraintsRaises
    \/ DefineObjective
    \/ AddMinimize
    \/ Solve
    \/ PrintResults
    \/ Return
    \/ ScheduleAgain
    \/ ScheduleSame
    \/ ScheduleMoreMachines
    \/ ScheduleMoreJobs

Spec == Init /\ [][Next]_vars

(***************************************************************************)
(* Reference definitions for the properties: the problem stated from first *)
(* principles, and what a reader of standard output sees.                  *)
(***************************************************************************)
Valid == n_machines >= 1

RECURSIVE LoadUpTo(_, _, _, _)
LoadUpTo(f, jt, i, n) ==
    IF n <= 0 THEN 0
    ELSE LoadUpTo(f, jt, i, n - 1) + (IF f[n - 1] = i THEN jt[n - 1] ELSE 0)

\* The maximum machine load when job j runs on machine f[j].
MaxLoad(f, jt, m) == SetMax({LoadUpTo(f, jt, i, len(jt)) : i \in range(m)})

\* The least maximum load over all functions from jobs to machines.
OptimalMakespan(jt, m) == SetMin({MaxLoad(f, jt, m) : f \in [DOMAIN jt -> range(m)]})

\* max(max_j duration[j], ceil(sum_j duration[j] / m))
LowerBound(jt, m) ==
    SetMax({jt[j] : j \in DOMAIN jt} \cup {(sum(jt) + m - 1) \div m})

RECURSIVE TupleSum(_, _)
TupleSum(t, n) ==
    IF n <= 0 THEN 0 ELSE TupleSum(t, n - 1) + job_times[t[n]]

TupleSet(t) == {t[k] : k \in 1 .. Len(t)}

\* The line standard output holds for machine i, and the load it reports.
MachineLine(i) == stdout[i + 2]

ReportedJobs(i) == TupleSet(MachineLine(i).value)

ReportedLoad(i) == TupleSum(MachineLine(i).value, Len(MachineLine(i).value))

Solved == pc \in {"print", "return"}

Reported == pc \in {"return", "done"}

\* C1: for valid input, the assignment obtained from the solver, and the one
\* reported per machine, put every job index on exactly one machine.
C1_EveryJobOnExactlyOneMachine ==
    /\ (Valid /\ Solved) =>
          /\ solver.status = "OPTIMAL"
          /\ \A j \in range(n_jobs) :
                Cardinality({i \in range(n_machines) : Value(solver.x, jobs[i][j]) = 1}) = 1
    /\ (Valid /\ Reported) =>
          \A j \in range(n_jobs) :
              Cardinality({i \in range(n_machines) : j \in ReportedJobs(i)}) = 1

C1_Witness ==
    /\ pc = "done"
    /\ n_machines = 2
    /\ n_jobs = 3
    /\ ReportedJobs(0) # {}
    /\ ReportedJobs(1) # {}

\* C2: for valid input, the returned makespan equals the maximum over the
\* machines of the summed durations of the jobs reported for that machine.
C2_MakespanIsMaxReportedLoad ==
    (Valid /\ pc = "done") =>
        /\ Len(stdout) = n_machines + 1
        /\ ret = <<SetMax({ReportedLoad(i) : i \in range(n_machines)})>>

C2_Witness ==
    /\ pc = "done"
    /\ n_machines = 2
    /\ ReportedLoad(0) = 1
    /\ ReportedLoad(1) = 2
    /\ ret = <<2>>

\* C3: for valid input, the returned makespan is the global optimum, the
\* least maximum load over all complete assignments; the four scenarios
\* return 10, 8, 10 and 9.
C3_MakespanIsGlobalOptimum ==
    (Valid /\ pc = "done") =>
        /\ ret = <<OptimalMakespan(job_times, n_machines)>>
        /\ (job_times = List(<<5, 5, 5, 5>>) /\ n_machines = 2) => ret = <<10>>
        /\ (job_times = List(<<1, 2, 3, 4, 5>>) /\ n_machines = 2) => ret = <<8>>
        /\ (job_times = List(<<10>>) /\ n_machines = 3) => ret = <<10>>
        /\ (job_times = List(<<3, 3, 3>>) /\ n_machines = 1) => ret = <<9>>

C3_Witness ==
    /\ pc = "done"
    /\ job_times = List(<<1, 2, 3, 4, 5>>)
    /\ n_machines = 2
    /\ ret = <<8>>

\* C4: for valid input, the returned makespan is at least the longest job
\* and at least the total duration divided by the machine count, rounded up.
C4_MakespanAtLeastLowerBound ==
    (Valid /\ pc = "done") => ret[1] >= LowerBound(job_times, n_machines)

C4_Witness ==
    /\ pc = "done"
    /\ n_machines = 2
    /\ job_times = List(<<1, 1, 1>>)
    /\ ret = <<2>>

\* C5: with the jobs fixed, one more machine never gives a larger makespan;
\* with the machines fixed, one more job never gives a smaller makespan.
C5_Monotonicity ==
    /\ (pc = "done" /\ rel = "machine" /\ prev.n_machines >= 1 /\ prev.ret # <<>>) =>
          /\ job_times = prev.job_times
          /\ n_machines = prev.n_machines + 1
          /\ ret[1] <= prev.ret[1]
    /\ (pc = "done" /\ rel = "job" /\ Valid /\ prev.ret # <<>>) =>
          /\ n_jobs >= 1
          /\ prev.job_times = [j \in range(n_jobs - 1) |-> job_times[j]]
          /\ n_machines = prev.n_machines
          /\ ret[1] >= prev.ret[1]

C5_Witness ==
    /\ pc = "done"
    /\ rel = "machine"
    /\ prev.n_machines = 1
    /\ ret[1] < prev.ret[1]

\* C6: when n_machines < 1 the call fails during model construction: no
\* solve takes place and no makespan is returned.
C6_InvalidInputRejected ==
    n_machines < 1 => (solver.status = "UNKNOWN" /\ ret = <<>>)

\* C7: for an empty job list and n_machines >= 1 the upper bound is 0, the
\* solve succeeds with every load and the makespan 0, schedule() returns 0
\* and every machine's reported job set is empty.
C7_EmptyJobList ==
    (Valid /\ n_jobs = 0) =>
        /\ pc # "TypeError"
        /\ upper_bound = 0
        /\ Solved =>
              /\ solver.status = "OPTIMAL"
              /\ \A d \in model.int_vars : d.lo = 0 /\ d.hi = 0
              /\ \A i \in range(n_machines) :
                    VarValue(model, solver.x, machine_makespans[i]) = 0
              /\ VarValue(model, solver.x, makespan[1]) = 0
        /\ pc = "done" =>
              /\ ret = <<0>>
              /\ Len(stdout) = n_machines + 1
              /\ \A i \in range(n_machines) : ReportedJobs(i) = {}

\* What AddBoolVars leaves in a model created by this call alone.
FreshModel ==
    [NewCpModel EXCEPT
        !.bool_vars = {<<i, j>> : i \in range(n_machines), j \in range(n_jobs)}]

Between == pc \in {"start", "done", "TypeError"}

\* A completed repeat of the previous call returned what that call returned.
SameResult ==
    (pc = "done" /\ rel \in {"again", "same"}) =>
        /\ job_times = prev.job_times
        /\ n_machines = prev.n_machines
        /\ ret = prev.ret

\* A repeat of a call that raised raises too.
SameFailure ==
    (pc = "TypeError" /\ rel \in {"again", "same"}) => prev.ret = <<>>

\* Nothing of a call outlives it, and a call starts from an empty model.
NothingKept ==
    /\ Between =>
          /\ model = NewCpModel
          /\ jobs = <<>>
          /\ machine_makespans = <<>>
          /\ makespan = <<>>
          /\ solver = NewCpSolver
    /\ pc = "single" => model = FreshModel

\* A step of schedule(), and a repeated call on the same Scheduler, leave
\* job_times, n_jobs, n_machines and upper_bound as they were.
FieldsKept == (~Between \/ pc = "start" \/ rel' = "again") => fields' = fields

\* C8: two calls with identical inputs return the identical makespan,
\* whichever optimum the solver picks, also when the second call is made on
\* the same Scheduler; a call leaves the Scheduler's fields unchanged and
\* keeps no model or solution of the previous call.
C8_DeterministicAndStateless ==
    /\ [](SameResult /\ SameFailure /\ NothingKept)
    /\ [][FieldsKept]_vars

C8_Witness ==
    /\ pc = "done"
    /\ rel = "again"
    /\ n_machines = 2
    /\ job_times = List(<<1, 2>>)
    /\ ret = <<2>>
    /\ ReportedJobs(0) = {0}

AllOnMachine0 == [j \in range(n_jobs) |-> {0}]

\* C10: for valid input the built model is satisfiable: with U the sum of
\* the durations every IntVar has domain [0, U], putting every job on
\* machine 0 satisfies every constraint within those domains, and the solve
\* does not end infeasible.
C10_ModelAlwaysSatisfiable ==
    /\ (Valid /\ pc = "solve") =>
          /\ \A d \in model.int_vars : d.lo = 0 /\ d.hi = sum(job_times)
          /\ Cardinality(model.exactly_one) = n_jobs
          /\ Cardinality(model.linear) = n_machines
          /\ Cardinality(model.max_equality) = 1
          /\ Satisfies(model, AllOnMachine0)
          /\ \A j \in range(n_jobs) : AllOnMachine0[j] \in ColChoices(model, j)
    /\ (Valid /\ Solved) => solver.status = "OPTIMAL"

C10_Witness ==
    /\ pc = "solve"
    /\ n_machines = 2
    /\ n_jobs = 3
    /\ upper_bound = 6
    /\ Satisfies(model, AllOnMachine0)
    /\ MaxOf(model, AllOnMachine0, CHOOSE c \in model.max_equality : TRUE) = 6

====
